---- MODULE Spec2Model ----
(***************************************************************************)
(* The package version-specifier algebra of yunohost/utils/packages.py:    *)
(* Specifier (a relation and a version string) and SpecifierSet (a set of  *)
(* Specifiers), with parsing, contains, intersection and union.            *)
(*                                                                         *)
(* Two specifications share the variables:                                 *)
(*   Spec       the algebra: two SpecifierSet operands built from lists of *)
(*              Specifiers, and the calls made on them;                    *)
(*   SpecParse  the construction of a Specifier from a string.             *)
(***************************************************************************)
EXTENDS Integers, Sequences, FiniteSets, TLC

\* Largest number of members of an operand SpecifierSet.
MaxSpecs == 2

\* Largest number of characters of a string given to Specifier(...).
MaxLen == 4

----------------------------------------------------------------------------
(* Versions.  version_compare is the Debian comparator the module calls     *)
(* (it is not defined in packages.py).  It is a total preorder on version   *)
(* strings: digit runs compare numerically, so "2.02" and "2.2" are two     *)
(* strings that compare equal.  Thresholds used in Specifiers sit at even   *)
(* ranks; the versions queried also lie below, between and above them, as   *)
(* they do in the dense order of Debian versions.                           *)

Rank(v) ==
  CASE v = "2.1"   -> 1
    [] v = "2.2"   -> 2
    [] v = "2.02"  -> 2
    [] v = "2.2.1" -> 3
    [] v = "2.3"   -> 4
    [] v = "2.3.1" -> 5
    [] v = "2.4"   -> 6
    [] v = "2.5"   -> 7

version_compare(a, b) ==
  IF Rank(a) < Rank(b) THEN -1 ELSE IF Rank(a) = Rank(b) THEN 0 ELSE 1

\* The version strings Specifiers are built with.
SpecVersions == {"2.2", "2.02", "2.3", "2.4"}

\* The version strings passed to contains.
Items == {"2.1", "2.2", "2.02", "2.2.1", "2.3", "2.3.1", "2.4", "2.5"}

----------------------------------------------------------------------------
(* Specifier *)

Relations == {"<<", "<=", "=", ">=", ">>"}

\* rel[i] of the code, 1-based here: the characters of a relation.
RelChars(rel) ==
  CASE rel = "<<" -> <<"<", "<">>
    [] rel = "<=" -> <<"<", "=">>
    [] rel = "="  -> <<"=">>
    [] rel = ">=" -> <<">", "=">>
    [] rel = ">>" -> <<">", ">">>

\* Specifier._spec: the pair (relation, version).
Specifier(rel, ver) == [relation |-> rel, version |-> ver]

Specifiers == { Specifier(r, v) : r \in Relations, v \in SpecVersions }

compare_lower_than(version, spec) == version_compare(version, spec) < 0

compare_lower_or_equal_than(version, spec) == version_compare(version, spec) <= 0

compare_equal(version, spec) == version_compare(version, spec) = 0

compare_greater_or_equal_than(version, spec) == version_compare(version, spec) >= 0

compare_greater_than(version, spec) == version_compare(version, spec) > 0

\* _get_relation(op)(version, spec): the dispatch through _relations.
get_relation(op, version, spec) ==
  CASE op = "<<" -> compare_lower_than(version, spec)
    [] op = "<=" -> compare_lower_or_equal_than(version, spec)
    [] op = "="  -> compare_equal(version, spec)
    [] op = ">=" -> compare_greater_or_equal_than(version, spec)
    [] op = ">>" -> compare_greater_than(version, spec)

\* Specifier.contains / __contains__.
Specifier_contains(self, item) == get_relation(self.relation, item, self.version)

\* Specifier.intersection with the '=' of other answered by self
\* (line 185 returning [self]).
Specifier_intersection_eqself(self, other) ==
  LET rel1 == self.relation
      v1   == self.version
      rel2 == other.relation
      v2   == other.version
  IN  IF other = self THEN {other}
      ELSE IF rel1 = "=" THEN (IF Specifier_contains(other, v1) THEN {self} ELSE {})
      ELSE IF rel2 = "=" THEN (IF Specifier_contains(self, v2) THEN {self} ELSE {})
      ELSE IF v1 = v2 THEN {IF RelChars(rel1)[2] = "=" THEN other ELSE self}
      ELSE IF Specifier_contains(self, v2) \/ Specifier_contains(other, v1)
      THEN LET is_self_greater == version_compare(v1, v2) > 0
           IN  IF RelChars(rel1)[1] = RelChars(rel2)[1]
               THEN IF RelChars(rel1)[1] = ">"
                    THEN {IF is_self_greater THEN self ELSE other}
                    ELSE {IF is_self_greater THEN other ELSE self}
               ELSE {self, other}
      ELSE {}

\* Specifier.intersection with the equal-threshold choice inverted
\* (line 187 keeping self when self is the inclusive one).
Specifier_intersection_keepincl(self, other) ==
  LET rel1 == self.relation
      v1   == self.version
      rel2 == other.relation
      v2   == other.version
  IN  IF other = self THEN {other}
      ELSE IF rel1 = "=" THEN (IF Specifier_contains(other, v1) THEN {self} ELSE {})
      ELSE IF rel2 = "=" THEN (IF Specifier_contains(self, v2) THEN {other} ELSE {})
      ELSE IF v1 = v2 THEN {IF RelChars(rel1)[2] = "=" THEN self ELSE other}
      ELSE IF Specifier_contains(self, v2) \/ Specifier_contains(other, v1)
      THEN LET is_self_greater == version_compare(v1, v2) > 0
           IN  IF RelChars(rel1)[1] = RelChars(rel2)[1]
               THEN IF RelChars(rel1)[1] = ">"
                    THEN {IF is_self_greater THEN self ELSE other}
                    ELSE {IF is_self_greater THEN other ELSE self}
               ELSE {self, other}
      ELSE {}

\* Specifier.intersection keeping only the receiver of a two-sided range
\* (line 196 returning [self]).
Specifier_intersection_dropother(self, other) ==
  LET rel1 == self.relation
      v1   == self.version
      rel2 == other.relation
      v2   == other.version
  IN  IF other = self THEN {other}
      ELSE IF rel1 = "=" THEN (IF Specifier_contains(other, v1) THEN {self} ELSE {})
      ELSE IF rel2 = "=" THEN (IF Specifier_contains(self, v2) THEN {other} ELSE {})
      ELSE IF v1 = v2 THEN {IF RelChars(rel1)[2] = "=" THEN other ELSE self}
      ELSE IF Specifier_contains(self, v2) \/ Specifier_contains(other, v1)
      THEN LET is_self_greater == version_compare(v1, v2) > 0
           IN  IF RelChars(rel1)[1] = RelChars(rel2)[1]
               THEN IF RelChars(rel1)[1] = ">"
                    THEN {IF is_self_greater THEN self ELSE other}
                    ELSE {IF is_self_greater THEN other ELSE self}
               ELSE {self}
      ELSE {}

\* Specifier.intersection: the members of the SpecifierSet it returns
\* (result None and result [] both give the empty SpecifierSet).
Specifier_intersection(self, other) ==
  LET rel1 == self.relation
      v1   == self.version
      rel2 == other.relation
      v2   == other.version
  IN  IF other = self THEN {other}
      ELSE IF rel1 = "=" THEN (IF Specifier_contains(other, v1) THEN {self} ELSE {})
      ELSE IF rel2 = "=" THEN (IF Specifier_contains(self, v2) THEN {other} ELSE {})
      ELSE IF v1 = v2 THEN {IF RelChars(rel1)[2] = "=" THEN other ELSE self}
      ELSE IF Specifier_contains(self, v2) \/ Specifier_contains(other, v1)
      THEN LET is_self_greater == version_compare(v1, v2) > 0
           IN  IF RelChars(rel1)[1] = RelChars(rel2)[1]
               THEN IF RelChars(rel1)[1] = ">"
                    THEN {IF is_self_greater THEN self ELSE other}
                    ELSE {IF is_self_greater THEN other ELSE self}
               ELSE {self, other}
      ELSE {}

----------------------------------------------------------------------------
(* SpecifierSet *)

\* SpecifierSet.__init__ on an iterable of Specifiers: each is copied
\* (Specifier(spec) takes spec._spec) into a frozenset.
SpecifierSet(specifiers) ==
  { Specifier(s.relation, s.version) : s \in specifiers }

\* all(...) of an empty iterable is True; it stops at the first False.
RECURSIVE all(_, _)
all(specs, item) ==
  IF specs = {} THEN TRUE
  ELSE LET s == CHOOSE x \in specs : TRUE
       IN  IF ~Specifier_contains(s, item) THEN FALSE
           ELSE all(specs \ {s}, item)

\* contains written with any() in place of all().
SpecifierSet_contains_any(specs, item) ==
  \E s \in specs : Specifier_contains(s, item)

\* SpecifierSet.contains / __contains__.
SpecifierSet_contains(specs, item) == all(specs, item)

\* union written with & in place of |.
SpecifierSet_union_and(self, other) ==
  [ret |-> self \cap other, self |-> self, other |-> other]

\* SpecifierSet.union: the members of the new set it returns, and the
\* members of the two operands when it returns.
SpecifierSet_union(self, other) ==
  [ret |-> self \cup other, self |-> self, other |-> other]

\* The body of `for spec in intersection` for one specifier: parsed is
\* cleared as soon as one member has an empty intersection with it, and is
\* otherwise the union of the pairwise intersections, in whatever order the
\* members are visited.
parsed(intersection_, specifier) ==
  IF \E spec \in intersection_ : Specifier_intersection(spec, specifier) = {}
  THEN {}
  ELSE UNION { Specifier_intersection(spec, specifier) : spec \in intersection_ }

\* Lines 317-329 run to the end from an accumulator and the elements still
\* to be iterated: every value the loop can return, over the orders in which
\* the set can be iterated.
RECURSIVE loop_outcomes(_, _)
loop_outcomes(intersection_, specifiers_) ==
  IF intersection_ = {} \/ specifiers_ = {}
  THEN {SpecifierSet(intersection_)}
  ELSE UNION { loop_outcomes(parsed(intersection_, specifier),
                             specifiers_ \ {specifier}) :
               specifier \in specifiers_ }

\* SpecifierSet.intersection: every SpecifierSet it can return for the two
\* operands, over the seeds pop() can give and the iteration orders.
SpecifierSet_intersection(self, other) ==
  LET pool == self \cup other
  IN  IF pool = {} THEN {SpecifierSet({})}
      ELSE UNION { loop_outcomes({seed}, pool \ {seed}) : seed \in pool }

----------------------------------------------------------------------------
(* State *)

VARIABLES
  self_specs,     \* _specs of the SpecifierSet the calls are made on
  other_specs,    \* _specs of the SpecifierSet passed as other
  pc,             \* "idle", or the place in SpecifierSet.intersection
  specifiers,     \* intersection: the elements still to be iterated
  intersection,   \* intersection: the accumulator
  call,           \* the last call: its name and arguments
  result,         \* what the last call returned
  text,           \* the string given to Specifier(...)
  parse           \* what Specifier(text) did

vars == <<self_specs, other_specs, pc, specifiers, intersection,
          call, result, text, parse>>

NoSpecifier == Specifier("", "")

\* op: the method called; self, other: the operands of Specifier.intersection;
\* item: the argument of contains; specs: the members of the SpecifierSet
\* contains was called on; built: how that SpecifierSet was built.
NoCall ==
  [op |-> "none", self |-> NoSpecifier, other |-> NoSpecifier, item |-> "",
   specs |-> {}, built |-> ""]

NoResult == [kind |-> "none", specs |-> {}, value |-> FALSE]

NoParse == [done |-> FALSE, ok |-> FALSE, relation |-> <<>>, version |-> <<>>]

\* The operands: self is built from a list of at most MaxSpecs Specifiers;
\* other is the empty SpecifierSet, one of a single Specifier, or self
\* itself (s & s, s | s).
Init ==
  /\ self_specs \in { SpecifierSet(S) : S \in
                        { T \in SUBSET Specifiers : Cardinality(T) <= MaxSpecs } }
  /\ other_specs \in { SpecifierSet(S) : S \in
                        {{}} \cup { {x} : x \in Specifiers } \cup {self_specs} }
  /\ pc = "idle"
  /\ specifiers = {}
  /\ intersection = {}
  /\ call = NoCall
  /\ result = NoResult
  /\ text = <<>>
  /\ parse = NoParse

\* No call has been made on the operands yet.  The calls are pure, so what
\* one returns does not depend on the calls made before it: each is taken
\* from this state.
Fresh == pc = "idle" /\ call.op = "none"

\* item in self
Contains(item) ==
  /\ Fresh
  /\ call' = [NoCall EXCEPT !.op = "SpecifierSet.contains", !.item = item,
                            !.specs = self_specs, !.built = "list"]
  /\ result' = [NoResult EXCEPT !.kind = "bool",
                                !.value = SpecifierSet_contains(self_specs, item)]
  /\ UNCHANGED <<self_specs, other_specs, pc, specifiers, intersection,
                 text, parse>>

\* item in (self | other), item in (self & other): contains on the
\* SpecifierSet the last call returned.
ContainsResult(item) ==
  /\ pc = "idle"
  /\ call.op \in {"SpecifierSet.union", "SpecifierSet.intersection"}
  /\ call' = [NoCall EXCEPT !.op = "SpecifierSet.contains", !.item = item,
                            !.specs = result.specs,
                            !.built = IF call.op = "SpecifierSet.union"
                                      THEN "union" ELSE "intersection"]
  /\ result' = [NoResult EXCEPT !.kind = "bool",
                                !.value = SpecifierSet_contains(result.specs, item)]
  /\ UNCHANGED <<self_specs, other_specs, pc, specifiers, intersection,
                 text, parse>>

\* a & b for two Specifiers of the operands
SpecifierIntersection(a, b) ==
  /\ Fresh
  /\ call' = [NoCall EXCEPT !.op = "Specifier.intersection", !.self = a, !.other = b]
  /\ result' = [NoResult EXCEPT !.kind = "SpecifierSet",
                                !.specs = SpecifierSet(Specifier_intersection(a, b))]
  /\ UNCHANGED <<self_specs, other_specs, pc, specifiers, intersection,
                 text, parse>>

\* self | other
Union ==
  /\ Fresh
  /\ LET u == SpecifierSet_union(self_specs, other_specs)
     IN  /\ result' = [NoResult EXCEPT !.kind = "SpecifierSet", !.specs = u.ret]
         /\ self_specs' = u.self
         /\ other_specs' = u.other
  /\ call' = [NoCall EXCEPT !.op = "SpecifierSet.union"]
  /\ UNCHANGED <<pc, specifiers, intersection, text, parse>>

\* self & other, lines 314-315: the pool, and the pop of an arbitrary seed.
IntersectionCall ==
  /\ Fresh
  /\ LET pool == self_specs \cup other_specs
     IN  IF pool = {}
         THEN /\ specifiers' = {}
              /\ intersection' = {}
         ELSE \E seed \in pool :
                /\ specifiers' = pool \ {seed}
                /\ intersection' = {seed}
  /\ pc' = IF specifiers' = {} THEN "return" ELSE "loop"
  /\ call' = [NoCall EXCEPT !.op = "SpecifierSet.intersection"]
  /\ result' = NoResult
  /\ UNCHANGED <<self_specs, other_specs, text, parse>>

\* lines 317-328: one turn of `for specifier in specifiers`, the set being
\* iterated in an arbitrary order.
IntersectionLoop ==
  /\ pc = "loop"
  /\ \E specifier \in specifiers :
       /\ intersection' = parsed(intersection, specifier)
       /\ specifiers' = specifiers \ {specifier}
  /\ pc' = IF intersection' = {} \/ specifiers' = {} THEN "return" ELSE "loop"
  /\ UNCHANGED <<self_specs, other_specs, call, result, text, parse>>

\* line 329
IntersectionReturn ==
  /\ pc = "return"
  /\ result' = [NoResult EXCEPT !.kind = "SpecifierSet",
                                !.specs = SpecifierSet(intersection)]
  /\ pc' = "idle"
  /\ specifiers' = {}
  /\ intersection' = {}
  /\ UNCHANGED <<self_specs, other_specs, call, text, parse>>

Next ==
  \/ \E item \in Items : Contains(item)
  \/ \E item \in Items : ContainsResult(item)
  \/ \E a \in self_specs \cup other_specs :
       \E b \in self_specs \cup other_specs : SpecifierIntersection(a, b)
  \/ Union
  \/ IntersectionCall
  \/ IntersectionLoop
  \/ IntersectionReturn

Spec == Init /\ [][Next]_vars

----------------------------------------------------------------------------
(* Specifier(spec) for a string: the regular expression and __init__.       *)
(* A string is a sequence of characters.                                    *)

\* \s
Whitespace == {" ", "\t", "\n", "\r"}

\* The characters [^,;\s)] leaves out.
NotInVersion == {",", ";", ")"} \cup Whitespace

\* \s* at the head of s: what is left once it has matched.  It is greedy,
\* and nothing that follows it in the pattern can start with whitespace.
RECURSIVE skip_whitespace(_)
skip_whitespace(s) ==
  IF s # <<>> /\ Head(s) \in Whitespace THEN skip_whitespace(Tail(s)) ELSE s

\* (<<|<=|=|>=|>>) at the head of s: the alternative that matches, <<>> if
\* none does.  No alternative is a prefix of another.
match_relation(s) ==
  IF Len(s) >= 2 /\ SubSeq(s, 1, 2) = <<"<", "<">> THEN <<"<", "<">>
  ELSE IF Len(s) >= 2 /\ SubSeq(s, 1, 2) = <<"<", "=">> THEN <<"<", "=">>
  ELSE IF Len(s) >= 1 /\ SubSeq(s, 1, 1) = <<"=">> THEN <<"=">>
  ELSE IF Len(s) >= 2 /\ SubSeq(s, 1, 2) = <<">", "=">> THEN <<">", "=">>
  ELSE IF Len(s) >= 2 /\ SubSeq(s, 1, 2) = <<">", ">">> THEN <<">", ">">>
  ELSE <<>>

\* [^,;\s)]* at the head of s: the number of characters it takes.
RECURSIVE match_version(_)
match_version(s) ==
  IF s # <<>> /\ Head(s) \notin NotInVersion THEN 1 + match_version(Tail(s)) ELSE 0

\* _regex.search(spec): the groups of the match, or no match.
regex_search(spec) ==
  LET s1       == skip_whitespace(spec)
      relation == match_relation(s1)
      s2       == skip_whitespace(SubSeq(s1, Len(relation) + 1, Len(s1)))
      n        == match_version(s2)
      s3       == skip_whitespace(SubSeq(s2, n + 1, Len(s2)))
  IN  IF relation = <<>> \/ s3 # <<>>
      THEN [matched |-> FALSE, relation |-> <<>>, version |-> <<>>]
      ELSE [matched |-> TRUE, relation |-> relation, version |-> SubSeq(s2, 1, n)]

\* str.strip()
RECURSIVE rstrip(_)
rstrip(s) ==
  IF s # <<>> /\ s[Len(s)] \in Whitespace THEN rstrip(SubSeq(s, 1, Len(s) - 1)) ELSE s

strip(s) == rstrip(skip_whitespace(s))

\* Specifier.__init__ on a string: InvalidSpecifier is raised (ok is FALSE),
\* or _spec is set.
Specifier_init(spec) ==
  LET match == regex_search(spec)
  IN  IF ~match.matched
      THEN [done |-> TRUE, ok |-> FALSE, relation |-> <<>>, version |-> <<>>]
      ELSE [done |-> TRUE, ok |-> TRUE,
            relation |-> strip(match.relation), version |-> strip(match.version)]

\* The characters the strings are made of: the relation symbols, a symbol
\* that is no relation, a blank, a version character and the separator of
\* SpecifierSet strings.
Alphabet == {"<", ">", "=", "~", " ", "1", ","}

Texts == UNION { [1..n -> Alphabet] : n \in 0..MaxLen }

InitParse ==
  /\ text \in Texts
  /\ parse = NoParse
  /\ self_specs = {}
  /\ other_specs = {}
  /\ pc = "idle"
  /\ specifiers = {}
  /\ intersection = {}
  /\ call = NoCall
  /\ result = NoResult

\* Specifier(text)
SpecifierInit ==
  /\ ~parse.done
  /\ parse' = Specifier_init(text)
  /\ UNCHANGED <<self_specs, other_specs, pc, specifiers, intersection,
                 call, result, text>>

NextParse == SpecifierInit

SpecParse == InitParse /\ [][NextParse]_vars

----------------------------------------------------------------------------
(* Properties *)

\* What a Specifier means: the comparator's answer read as its relation says.
Satisfies(m, v) ==
  CASE m.relation = "<<" -> Rank(v) <  Rank(m.version)
    [] m.relation = "<=" -> Rank(v) <= Rank(m.version)
    [] m.relation = "="  -> Rank(v) =  Rank(m.version)
    [] m.relation = ">=" -> Rank(v) >= Rank(m.version)
    [] m.relation = ">>" -> Rank(v) >  Rank(m.version)

Strict(m) == m.relation \in {"<<", ">>"}

\* SpecifierSet.intersection has returned.
Returned == pc = "idle" /\ call.op = "SpecifierSet.intersection"

\* C1: SpecifierSet.contains(v) is true exactly when every member of the set
\* it is called on contains v under the comparator (so the empty set contains
\* every version), whether the set was built from a list, by union or by
\* intersection.
C1_ContainsIsConjunction ==
  call.op = "SpecifierSet.contains" =>
    result.value = (\A m \in call.specs : Satisfies(m, call.item))

\* C1 witness: contains has answered False on a set of several members that
\* union returned, one member of which contains the version asked.
C1_Witness ==
  /\ call.op = "SpecifierSet.contains"
  /\ call.built = "union"
  /\ Cardinality(call.specs) >= 2
  /\ result.value = FALSE
  /\ \E m \in call.specs : Satisfies(m, call.item)

\* C2: a.intersect(b) and b.intersect(a) contain the same versions, for all
\* Specifiers a and b.
C2_IntersectCommutes ==
  call.op = "Specifier.intersection" =>
    \A v \in Items :
      SpecifierSet_contains(result.specs, v)
        = SpecifierSet_contains(
            SpecifierSet(Specifier_intersection(call.other, call.self)), v)

\* C3: when no version satisfies every member of self and of other,
\* self.intersection(other) is the empty SpecifierSet, whatever the seed and
\* the order.
C3_InfeasibleIsEmpty ==
  (Returned /\ \A v \in Items :
                 ~SpecifierSet_contains(self_specs \cup other_specs, v))
    => result.specs = {}

\* C4: SpecifierSet('>=2.2,<<2.4').intersection(SpecifierSet('<<2.3')) has
\* exactly the members >=2.2 and <<2.3, whatever the seed and the order.
C4_DocstringExample ==
  (/\ Returned
   /\ self_specs = {Specifier(">=", "2.2"), Specifier("<<", "2.4")}
   /\ other_specs = {Specifier("<<", "2.3")})
    => result.specs = {Specifier(">=", "2.2"), Specifier("<<", "2.3")}

\* C5: for a non-empty SpecifierSet s that some version satisfies,
\* s.intersection(s) contains exactly the versions s contains, whatever the
\* seed and the order.
C5_IntersectionIdempotent ==
  (/\ Returned
   /\ other_specs = self_specs
   /\ self_specs # {}
   /\ \E v \in Items : SpecifierSet_contains(self_specs, v))
    => \A v \in Items :
         SpecifierSet_contains(result.specs, v) = SpecifierSet_contains(self_specs, v)

\* C6: Specifier(text) raises InvalidSpecifier unless text holds one of the
\* five relations followed by a non-empty version: no Specifier with an empty
\* version is built from a string.
C6_EmptyVersionRejected ==
  (parse.done /\ parse.ok) =>
    /\ parse.relation \in {<<"<", "<">>, <<"<", "=">>, <<"=">>, <<">", "=">>, <<">", ">">>}
    /\ parse.version # <<>>

\* C7 as claimed: for two distinct Specifiers one of which is '=' v, the
\* result is that '=' Specifier alone when the other contains v and empty
\* otherwise, whichever of the two is the receiver.
C7_EqualAbsorbs_AsClaimed ==
  (call.op = "Specifier.intersection" /\ call.self # call.other) =>
    /\ call.self.relation = "=" =>
         result.specs = IF Satisfies(call.other, call.self.version)
                        THEN {call.self} ELSE {}
    /\ call.other.relation = "=" =>
         result.specs = IF Satisfies(call.self, call.other.version)
                        THEN {call.other} ELSE {}

\* C7 amended: for two distinct Specifiers exactly one of which is '=' v, the
\* result is that '=' Specifier alone when the other contains v and empty
\* otherwise, whichever is the receiver; when both are '=', the result is the
\* receiver alone when the two versions compare equal and empty otherwise.
C7_EqualAbsorbs ==
  (call.op = "Specifier.intersection" /\ call.self # call.other) =>
    /\ (call.self.relation = "=" /\ call.other.relation # "=") =>
         result.specs = IF Satisfies(call.other, call.self.version)
                        THEN {call.self} ELSE {}
    /\ (call.other.relation = "=" /\ call.self.relation # "=") =>
         result.specs = IF Satisfies(call.self, call.other.version)
                        THEN {call.other} ELSE {}
    /\ (call.self.relation = "=" /\ call.other.relation = "=") =>
         result.specs = IF Rank(call.self.version) = Rank(call.other.version)
                        THEN {call.self} ELSE {}

\* C7 witness: a lower bound met an '=' passed as other, and the '=' alone
\* came back.
C7_Witness ==
  /\ call.op = "Specifier.intersection"
  /\ call.self = Specifier(">=", "2.2")
  /\ call.other = Specifier("=", "2.3")
  /\ result.specs = {Specifier("=", "2.3")}

\* C8: for two Specifiers with the same version string, neither '=', one
\* strict (<< or >>) and one inclusive (<= or >=), the result is the strict
\* one alone, whichever is the receiver.
C8_StrictWinsTie ==
  (/\ call.op = "Specifier.intersection"
   /\ call.self.version = call.other.version
   /\ call.self.relation # "="
   /\ call.other.relation # "="
   /\ Strict(call.self) # Strict(call.other))
    => result.specs = {IF Strict(call.self) THEN call.self ELSE call.other}

\* C8 witness: <=2.2 met <<2.2 and <<2.2 alone came back.
C8_Witness ==
  /\ call.op = "Specifier.intersection"
  /\ call.self = Specifier("<=", "2.2")
  /\ call.other = Specifier("<<", "2.2")
  /\ result.specs = {Specifier("<<", "2.2")}

\* C9: union returns a SpecifierSet whose members are exactly those of self
\* and those of other, none removed or merged, and leaves the members of
\* both operands as they were.
C9_UnionIsStructural ==
  [][Union => /\ result'.specs = self_specs \cup other_specs
              /\ self_specs' = self_specs
              /\ other_specs' = other_specs]_vars

\* C9 witness: union has returned three members, among them >=2.2 and the
\* bound >=2.3 that subsumes it.
C9_Witness ==
  /\ call.op = "SpecifierSet.union"
  /\ other_specs = {Specifier(">=", "2.3")}
  /\ Specifier(">=", "2.2") \in self_specs
  /\ Cardinality(result.specs) = 3
  /\ {Specifier(">=", "2.2"), Specifier(">=", "2.3")} \subseteq result.specs

\* C10: for two Specifiers with different version strings whose relations
\* point the same way, the result is the one with the higher version alone
\* (both '>') or with the lower version alone (both '<'), and it contains
\* exactly the versions both operands contain.
C10_SameDirectionKeepsTighter ==
  (/\ call.op = "Specifier.intersection"
   /\ call.self.version # call.other.version
   /\ call.self.relation # "="
   /\ call.other.relation # "="
   /\ RelChars(call.self.relation)[1] = RelChars(call.other.relation)[1])
    => /\ RelChars(call.self.relation)[1] = ">" =>
            /\ Rank(call.self.version) > Rank(call.other.version)
                 => result.specs = {call.self}
            /\ Rank(call.self.version) < Rank(call.other.version)
                 => result.specs = {call.other}
       /\ RelChars(call.self.relation)[1] = "<" =>
            /\ Rank(call.self.version) < Rank(call.other.version)
                 => result.specs = {call.self}
            /\ Rank(call.self.version) > Rank(call.other.version)
                 => result.specs = {call.other}
       /\ \A v \in Items :
            SpecifierSet_contains(result.specs, v)
              = (Satisfies(call.self, v) /\ Satisfies(call.other, v))

\* C11: for two Specifiers with different version strings, neither '=', one
\* a lower and one an upper bound, the result is {self, other} when other
\* contains self's version or self contains other's, and empty otherwise;
\* and it is empty only when no version satisfies both.
C11_OppositeDirections ==
  (/\ call.op = "Specifier.intersection"
   /\ call.self.version # call.other.version
   /\ call.self.relation # "="
   /\ call.other.relation # "="
   /\ RelChars(call.self.relation)[1] # RelChars(call.other.relation)[1])
    => /\ result.specs =
            IF \/ Satisfies(call.other, call.self.version)
               \/ Satisfies(call.self, call.other.version)
            THEN {call.self, call.other} ELSE {}
       /\ result.specs = {} =>
            \A v \in Items : ~(Satisfies(call.self, v) /\ Satisfies(call.other, v))

\* C11 witness: >=2.2 met <<2.3 and both came back.
C11_Witness ==
  /\ call.op = "Specifier.intersection"
  /\ call.self = Specifier(">=", "2.2")
  /\ call.other = Specifier("<<", "2.3")
  /\ result.specs = {Specifier(">=", "2.2"), Specifier("<<", "2.3")}

\* C12: for all SpecifierSets s and t, every seed and every iteration order
\* make s.intersection(t) return a set that contains the same versions.
C12_OrderIndependent ==
  Returned =>
    \A r \in SpecifierSet_intersection(self_specs, other_specs) :
      \A v \in Items :
        SpecifierSet_contains(r, v) = SpecifierSet_contains(result.specs, v)

\* C13: whenever a.intersect(b) is not empty, a version satisfies it exactly
\* when it satisfies both a and b.
C13_IntersectSound ==
  (call.op = "Specifier.intersection" /\ result.specs # {}) =>
    \A v \in Items :
      SpecifierSet_contains(result.specs, v)
        = (Specifier_contains(call.self, v) /\ Specifier_contains(call.other, v))

====
